---- MODULE Spec2Model ----
(***************************************************************************)
(* Attendance-and-capacity engine of the football game generator backend:  *)
(* GameService (createGame / getOpenGame), AttendanceService               *)
(* (registerAttendance / getRoster), GuestService (createGuest /           *)
(* deleteGuest / getGuestsByInviter / getRosterWithGuests) and the HTTP    *)
(* handlers of server.ts that call them.                                   *)
(*                                                                         *)
(* Tables are sets of rows.  A row's created_at is its insertion rank in   *)
(* its table; ids of games are their insertion rank, ids of guests come    *)
(* from a counter (rows of guest_players can be deleted).  Every user has  *)
(* a profile, so the JOIN on profiles keeps every row.                     *)
(***************************************************************************)
EXTENDS Integers, Sequences, FiniteSets, TLC

\* ---------------------------------------------------------------- bounds
MaxGames == 2
MaxGuests == 2
MaxLifecycleGuests == 1
MaxTimestamp == 4

\* ------------------------------------------------------ program constants
MAX_CONFIRMED_PLAYERS == 24
MAX_TOTAL_PLAYERS == 24

\* -------------------------------------------------------------- identities
\* players already CONFIRMED for game 1 in an initial state
Prefills == {MAX_CONFIRMED_PLAYERS - 1, MAX_CONFIRMED_PLAYERS}
Players == {101, 102}
Admins == {201}
AdminId == CHOOSE a \in Admins : TRUE
Callers == Players \cup Admins
\* selfRating of the guest data of a create-guest and of an update-guest request
CreateRatings == {7}
UpdateRatings == {9}
\* ids that are in no row of users
NonexistentUsers == {901}
Conns == {1, 2}
GameIds == 1..MaxGames
lifecycleActions == {"CONFIRMED", "OUT"}
lifecyclePlayers == {101}
\* the actions of the interleaved registrations
capActions == {"CONFIRMED", "WAITING"}
validActions == {"CONFIRMED", "WAITING", "OUT", "LATE_CONFIRMED"}

VARIABLES games, attendances, guest_players, guestSeq, last, txPc, txTargets, txUpd, txStart, rq

vars == <<games, attendances, guest_players, guestSeq, last, txPc, txTargets, txUpd, txStart, rq>>
dbVars == <<games, attendances, guest_players, guestSeq>>
txVars == <<txPc, txTargets, txUpd, txStart, rq>>

\* ------------------------------------------------------------------ helpers
RECURSIVE SortByCreatedAt(_)
SortByCreatedAt(rows) ==
  IF rows = {} THEN <<>>
  ELSE LET first == CHOOSE r \in rows : \A q \in rows : r.created_at <= q.created_at
       IN <<first>> \o SortByCreatedAt(rows \ {first})

\* InviterLess that compares the creation times alone
InviterLess_createdOnly(a, b) == a.created_at <= b.created_at

InviterLess(a, b) ==
  \/ a.inviter_id < b.inviter_id
  \/ a.inviter_id = b.inviter_id /\ a.created_at <= b.created_at

RECURSIVE SortByInviterThenCreatedAt(_)
SortByInviterThenCreatedAt(rows) ==
  IF rows = {} THEN <<>>
  ELSE LET first == CHOOSE r \in rows : \A q \in rows : InviterLess(r, q)
       IN <<first>> \o SortByInviterThenCreatedAt(rows \ {first})

isUserAdmin(userId) == userId \in Admins

\* REFERENCES users(id): the id is in a row of users
userExists(userId) == userId \notin NonexistentUsers

\* the time a transaction that starts now sees: later than every stored game
\* and than the start of every transaction in flight
CURRENT_TIMESTAMP ==
  LET stamps == {games[g].created_at : g \in 1..Len(games)} \cup {txStart[c] : c \in Conns}
  IN 1 + CHOOSE m \in stamps : \A x \in stamps : x <= m

OpenGames(gs) == {g \in 1..Len(gs) : gs[g].state = "OPEN"}

\* response of a request: the op, its inputs, the status code and the body
Response(op, user, game, action, guest, http, body) ==
  [op |-> op, user |-> user, game |-> game, action |-> action, guest |-> guest,
   http |-> http, body |-> body]

ErrorBody(msg) == [error |-> msg]

\* ------------------------------------------------------------- GameService
\* UPDATE games SET state = 'ARCHIVED' on the rows the statement selected
archiveGames(gs, targets) ==
  [g \in 1..Len(gs) |-> IF g \in targets /\ gs[g].state = "OPEN"
                         THEN [gs[g] EXCEPT !.state = "ARCHIVED"] ELSE gs[g]]

\* the archive step without its WHERE state = 'OPEN'
archiveOpenGames_allGames(gs) == [g \in 1..Len(gs) |-> [gs[g] EXCEPT !.state = "ARCHIVED"]]

archiveOpenGames(gs) == archiveGames(gs, OpenGames(gs))

\* created_at defaults to CURRENT_TIMESTAMP, the start of the transaction
insertGame(gs, adminId, now) ==
  Append(gs, [state |-> "OPEN", created_by |-> adminId, created_at |-> now])

\* createGame without the archive step
createGame_noArchive(gs, adminId, now) == insertGame(gs, adminId, now)

createGame(gs, adminId, now) == insertGame(archiveOpenGames(gs), adminId, now)

\* ROLLBACK that leaves the transaction's UPDATE in the table
rollbackGames_keepArchive(gs, updated) == archiveGames(gs, updated)

\* ROLLBACK of createGame: the rows the transaction updated stay as committed
rollbackGames(gs, updated) == gs

\* 0 stands for null
getOpenGame(gs) ==
  IF OpenGames(gs) = {} THEN 0
  ELSE CHOOSE g \in OpenGames(gs) : \A h \in OpenGames(gs) : gs[h].created_at <= gs[g].created_at

\* ------------------------------------------------------- AttendanceService
existingStatusOf(att, gameId, userId) ==
  LET rows == {r \in att : r.game_id = gameId /\ r.player_id = userId}
  IN IF rows = {} THEN "NONE" ELSE (CHOOSE r \in rows : TRUE).status

\* upsertAttendance whose DO UPDATE also sets created_at
upsertAttendance_restamp(att, gameId, userId, status) ==
  IF \E r \in att : r.game_id = gameId /\ r.player_id = userId
  THEN {IF r.game_id = gameId /\ r.player_id = userId
        THEN [r EXCEPT !.status = status, !.created_at = Cardinality(att) + 1] ELSE r : r \in att}
  ELSE att \cup {[game_id |-> gameId, player_id |-> userId, status |-> status,
                  created_at |-> Cardinality(att) + 1]}

\* upsertAttendance as a plain INSERT on a table without the UNIQUE constraint
upsertAttendance_insertOnly(att, gameId, userId, status) ==
  att \cup {[game_id |-> gameId, player_id |-> userId, status |-> status,
             created_at |-> Cardinality(att) + 1]}

upsertAttendance(att, gameId, userId, status) ==
  IF \E r \in att : r.game_id = gameId /\ r.player_id = userId
  THEN {IF r.game_id = gameId /\ r.player_id = userId THEN [r EXCEPT !.status = status] ELSE r : r \in att}
  ELSE att \cup {[game_id |-> gameId, player_id |-> userId, status |-> status,
                  created_at |-> Cardinality(att) + 1]}

\* handleConfirmedRequest with the cap test off by one
handleConfirmedRequest_offByOne(att, gameId, userId, existingStatus) ==
  LET currentConfirmed == Cardinality({r \in att : r.game_id = gameId /\ r.status = "CONFIRMED"})
  IN IF existingStatus = "CONFIRMED" THEN att
     ELSE IF existingStatus # "NONE" THEN upsertAttendance(att, gameId, userId, "CONFIRMED")
     ELSE IF currentConfirmed > MAX_CONFIRMED_PLAYERS
          THEN upsertAttendance(att, gameId, userId, "WAITING")
          ELSE upsertAttendance(att, gameId, userId, "CONFIRMED")

\* handleConfirmedRequest that applies the cap to existing attendees too
handleConfirmedRequest_capExisting(att, gameId, userId, existingStatus) ==
  LET currentConfirmed == Cardinality({r \in att : r.game_id = gameId /\ r.status = "CONFIRMED"})
  IN IF existingStatus = "CONFIRMED" THEN att
     ELSE IF currentConfirmed >= MAX_CONFIRMED_PLAYERS
          THEN upsertAttendance(att, gameId, userId, "WAITING")
          ELSE upsertAttendance(att, gameId, userId, "CONFIRMED")

handleConfirmedRequest(att, gameId, userId, existingStatus) ==
  LET currentConfirmed == Cardinality({r \in att : r.game_id = gameId /\ r.status = "CONFIRMED"})
  IN IF existingStatus = "CONFIRMED" THEN att
     ELSE IF existingStatus # "NONE" THEN upsertAttendance(att, gameId, userId, "CONFIRMED")
     ELSE IF currentConfirmed >= MAX_CONFIRMED_PLAYERS
          THEN upsertAttendance(att, gameId, userId, "WAITING")
          ELSE upsertAttendance(att, gameId, userId, "CONFIRMED")

handleWaitingRequest(att, gameId, userId, existingStatus) ==
  IF existingStatus = "WAITING" THEN att
  ELSE upsertAttendance(att, gameId, userId, "WAITING")

\* handleOutRequest that also promotes the earliest WAITING player
handleOutRequest_promote(att, gameId, userId, existingStatus) ==
  IF existingStatus = "OUT" THEN att
  ELSE LET out == upsertAttendance(att, gameId, userId, "OUT")
           waiting == {r \in out : r.game_id = gameId /\ r.status = "WAITING"}
       IN IF waiting = {} THEN out
          ELSE LET first == CHOOSE r \in waiting : \A q \in waiting : r.created_at <= q.created_at
               IN upsertAttendance(out, gameId, first.player_id, "LATE_CONFIRMED")

handleOutRequest(att, gameId, userId, existingStatus) ==
  IF existingStatus = "OUT" THEN att
  ELSE upsertAttendance(att, gameId, userId, "OUT")

\* handleLateConfirmedRequest with the cap check of a first-time CONFIRMED
handleLateConfirmedRequest_capped(att, gameId, userId, existingStatus) ==
  LET currentConfirmed == Cardinality({r \in att : r.game_id = gameId /\ r.status = "CONFIRMED"})
  IN IF existingStatus = "LATE_CONFIRMED" THEN att
     ELSE IF existingStatus = "NONE" /\ currentConfirmed >= MAX_CONFIRMED_PLAYERS
          THEN upsertAttendance(att, gameId, userId, "WAITING")
          ELSE upsertAttendance(att, gameId, userId, "LATE_CONFIRMED")

handleLateConfirmedRequest(att, gameId, userId, existingStatus) ==
  IF existingStatus = "LATE_CONFIRMED" THEN att
  ELSE upsertAttendance(att, gameId, userId, "LATE_CONFIRMED")

\* the status the handler of a request upserts, "" when it returns without a
\* write, from the status and the count its SELECTs returned
handledStatus_countsItself(action, existingStatus, currentConfirmed) ==
  CASE action = "CONFIRMED" ->
         IF existingStatus = "CONFIRMED" THEN ""
         ELSE IF existingStatus # "NONE" THEN "CONFIRMED"
         ELSE IF currentConfirmed + 1 >= MAX_CONFIRMED_PLAYERS THEN "WAITING" ELSE "CONFIRMED"
    [] OTHER -> IF existingStatus = action THEN "" ELSE action

handledStatus(action, existingStatus, currentConfirmed) ==
  CASE action = "CONFIRMED" ->
         IF existingStatus = "CONFIRMED" THEN ""
         ELSE IF existingStatus # "NONE" THEN "CONFIRMED"
         ELSE IF currentConfirmed >= MAX_CONFIRMED_PLAYERS THEN "WAITING" ELSE "CONFIRMED"
    [] OTHER -> IF existingStatus = action THEN "" ELSE action

\* the rows registerAttendance commits once the game checks have passed
registerAttendance(att, userId, gameId, action) ==
  LET existingStatus == existingStatusOf(att, gameId, userId)
  IN CASE action = "CONFIRMED" -> handleConfirmedRequest(att, gameId, userId, existingStatus)
       [] action = "WAITING" -> handleWaitingRequest(att, gameId, userId, existingStatus)
       [] action = "OUT" -> handleOutRequest(att, gameId, userId, existingStatus)
       [] action = "LATE_CONFIRMED" -> handleLateConfirmedRequest(att, gameId, userId, existingStatus)
       [] OTHER -> att

\* getRoster whose confirmed list leaves out the LATE_CONFIRMED players
getRoster_confirmedOnly(att, gameId) ==
  LET rows == SortByCreatedAt({r \in att : r.game_id = gameId
                                 /\ r.status \in {"CONFIRMED", "WAITING", "LATE_CONFIRMED"}})
  IN [confirmed |-> SelectSeq(rows, LAMBDA r : r.status = "CONFIRMED"),
      waiting |-> SelectSeq(rows, LAMBDA r : r.status = "WAITING")]

getRoster(att, gameId) ==
  LET rows == SortByCreatedAt({r \in att : r.game_id = gameId
                                 /\ r.status \in {"CONFIRMED", "WAITING", "LATE_CONFIRMED"}})
  IN [confirmed |-> SelectSeq(rows, LAMBDA r : r.status = "CONFIRMED" \/ r.status = "LATE_CONFIRMED"),
      waiting |-> SelectSeq(rows, LAMBDA r : r.status = "WAITING")]

\* ------------------------------------------------------------ GuestService
totalConfirmed(att, gp, gameId) ==
  Cardinality({r \in att : r.game_id = gameId /\ r.status \in {"CONFIRMED", "LATE_CONFIRMED"}})
  + Cardinality({r \in gp : r.game_id = gameId /\ r.status = "CONFIRMED"})

\* inviterEligible that lets an inviter whose status is OUT pass
inviterEligible_allowOut(att, gameId, inviterId) ==
  \E r \in att : r.game_id = gameId /\ r.player_id = inviterId

\* inviterEligible without the inviter check
inviterEligible_anyone(att, gameId, inviterId) == TRUE

inviterEligible(att, gameId, inviterId) ==
  LET rows == {r \in att : r.game_id = gameId /\ r.player_id = inviterId}
  IN ~(rows = {} \/ (CHOOSE r \in rows : TRUE).status = "OUT")

\* guestStatusFor with the cap test off by one
guestStatusFor_offByOne(att, gp, gameId) ==
  IF totalConfirmed(att, gp, gameId) > MAX_TOTAL_PLAYERS THEN "WAITING" ELSE "CONFIRMED"

guestStatusFor(att, gp, gameId) ==
  IF totalConfirmed(att, gp, gameId) >= MAX_TOTAL_PLAYERS THEN "WAITING" ELSE "CONFIRMED"

\* the rows createGuest commits once the game and inviter checks have passed
createGuest(att, gp, seq, inviterId, gameId, selfRating) ==
  gp \cup {[id |-> seq + 1, game_id |-> gameId, inviter_id |-> inviterId, rating |-> selfRating,
            status |-> guestStatusFor(att, gp, gameId), created_at |-> seq + 1]}

\* the status of a new guest from the count its SELECT returned
guestStatusAt(currentConfirmed) ==
  IF currentConfirmed >= MAX_TOTAL_PLAYERS THEN "WAITING" ELSE "CONFIRMED"

\* INSERT INTO guest_players with the status decided before
insertGuest(gp, seq, inviterId, gameId, selfRating, guestStatus) ==
  gp \cup {[id |-> seq + 1, game_id |-> gameId, inviter_id |-> inviterId, rating |-> selfRating,
            status |-> guestStatus, created_at |-> seq + 1]}

\* updateGuest whose UPDATE also recomputes the status from the current count
updateGuest_restatus(att, gp, guestId, selfRating) ==
  {IF r.id = guestId
   THEN [r EXCEPT !.rating = selfRating,
                  !.status = guestStatusFor(att, gp \ {r}, r.game_id)]
   ELSE r : r \in gp}

\* the rows updateGuest commits once the guest was found
updateGuest(att, gp, guestId, selfRating) ==
  {IF r.id = guestId THEN [r EXCEPT !.rating = selfRating] ELSE r : r \in gp}

\* deleteGuest without the closed-game check
deleteGuest_noLock(gs, gp, guestId) ==
  LET rows == {r \in gp : r.id = guestId /\ r.game_id \in 1..Len(gs)}
  IN IF rows = {} THEN [error |-> "Guest not found", rows |-> gp, game_id |-> 0]
     ELSE [error |-> "", rows |-> {r \in gp : r.id # guestId},
           game_id |-> (CHOOSE r \in rows : TRUE).game_id]

\* outcome of deleteGuest: the error it throws ("" when none) and the rows left
deleteGuest(gs, gp, guestId) ==
  LET rows == {r \in gp : r.id = guestId /\ r.game_id \in 1..Len(gs)}
  IN IF rows = {} THEN [error |-> "Guest not found", rows |-> gp, game_id |-> 0]
     ELSE LET guest == CHOOSE r \in rows : TRUE
          IN IF gs[guest.game_id].state = "CLOSED"
             THEN [error |-> "Cannot delete guest from closed game without team rebalancing",
                   rows |-> gp, game_id |-> guest.game_id]
             ELSE [error |-> "", rows |-> {r \in gp : r.id # guestId}, game_id |-> guest.game_id]

\* getGuestsByInviter without the inviter filter
getGuestsByInviter_anyInviter(gp, gameId, inviterId) ==
  SortByCreatedAt({r \in gp : r.game_id = gameId})

getGuestsByInviter(gp, gameId, inviterId) ==
  SortByCreatedAt({r \in gp : r.game_id = gameId /\ r.inviter_id = inviterId})

\* getRosterWithGuests whose player query is ORDER BY a.created_at DESC
getRosterWithGuests_newestFirst(att, gp, gameId) ==
  LET Reverse(q) == [i \in 1..Len(q) |-> q[Len(q) + 1 - i]]
      players == Reverse(SortByCreatedAt({r \in att : r.game_id = gameId
                                    /\ r.status \in {"CONFIRMED", "WAITING", "LATE_CONFIRMED"}}))
      guests == SortByInviterThenCreatedAt({r \in gp : r.game_id = gameId})
  IN [confirmed |-> SelectSeq(players, LAMBDA r : r.status = "CONFIRMED" \/ r.status = "LATE_CONFIRMED"),
      waiting |-> SelectSeq(players, LAMBDA r : r.status = "WAITING"),
      guests |-> [confirmed |-> SelectSeq(guests, LAMBDA r : r.status = "CONFIRMED"),
                  waiting |-> SelectSeq(guests, LAMBDA r : r.status = "WAITING")]]

getRosterWithGuests(att, gp, gameId) ==
  LET players == SortByCreatedAt({r \in att : r.game_id = gameId
                                    /\ r.status \in {"CONFIRMED", "WAITING", "LATE_CONFIRMED"}})
      guests == SortByInviterThenCreatedAt({r \in gp : r.game_id = gameId})
  IN [confirmed |-> SelectSeq(players, LAMBDA r : r.status = "CONFIRMED" \/ r.status = "LATE_CONFIRMED"),
      waiting |-> SelectSeq(players, LAMBDA r : r.status = "WAITING"),
      guests |-> [confirmed |-> SelectSeq(guests, LAMBDA r : r.status = "CONFIRMED"),
                  waiting |-> SelectSeq(guests, LAMBDA r : r.status = "WAITING")]]

\* a connection that has run no request
NoRequest ==
  [pc |-> "idle", op |-> "-", user |-> 0, game |-> 0, action |-> "-", existing |-> "-",
   count |-> 0, guest |-> 0, raced |-> FALSE]

\* ----------------------------------------------------------------- Init
InitEmpty ==
  /\ games = <<>>
  /\ attendances = {}

InitFilled ==
  \E k \in Prefills :
    /\ games = <<[state |-> "OPEN", created_by |-> AdminId, created_at |-> 1]>>
    /\ attendances = {[game_id |-> 1, player_id |-> d, status |-> "CONFIRMED", created_at |-> d] :
                        d \in 1..k}

Init ==
  /\ InitEmpty \/ InitFilled
  /\ guest_players = {}
  /\ guestSeq = 0
  /\ last = Response("init", 0, 0, "-", 0, 0, ErrorBody("-"))
  /\ txPc = [c \in Conns |-> "idle"]
  /\ txTargets = [c \in Conns |-> {}]
  /\ txUpd = [c \in Conns |-> {}]
  /\ txStart = [c \in Conns |-> 0]
  /\ rq = [c \in Conns |-> NoRequest]

\* ------------------------------------------------- HTTP handlers (server.ts)
\* POST /api/admin/game that deletes the rows of the games it archives
CreateGame_dropArchivedRows(userId) ==
  /\ Len(games) < MaxGames
  /\ IF ~isUserAdmin(userId)
     THEN /\ last' = Response("createGame", userId, 0, "-", 0, 403, ErrorBody("Admin access required"))
          /\ UNCHANGED <<games, attendances, guest_players>>
     ELSE /\ games' = createGame(games, userId, CURRENT_TIMESTAMP)
          /\ attendances' = {r \in attendances : r.game_id \notin OpenGames(games)}
          /\ guest_players' = {r \in guest_players : r.game_id \notin OpenGames(games)}
          /\ last' = Response("createGame", userId, Len(games'), "-", 0, 201, games'[Len(games')])
  /\ UNCHANGED <<guestSeq, txVars>>

\* POST /api/admin/game
CreateGame(userId) ==
  /\ Len(games) < MaxGames
  /\ IF ~isUserAdmin(userId)
     THEN /\ last' = Response("createGame", userId, 0, "-", 0, 403, ErrorBody("Admin access required"))
          /\ UNCHANGED games
     ELSE /\ games' = createGame(games, userId, CURRENT_TIMESTAMP)
          /\ last' = Response("createGame", userId, Len(games'), "-", 0, 201, games'[Len(games')])
  /\ UNCHANGED <<attendances, guest_players, guestSeq, txVars>>

\* POST /api/game/:id/attendance without the check of the game's state
RegisterAttendance_noStateCheck(userId, gameId, action) ==
  /\ IF gameId \notin 1..Len(games)
     THEN /\ last' = Response("registerAttendance", userId, gameId, action, 0, 404, ErrorBody("Game not found"))
          /\ UNCHANGED attendances
     ELSE IF ~userExists(userId)
     THEN /\ last' = Response("registerAttendance", userId, gameId, action, 0, 500,
                              ErrorBody("Internal server error"))
          /\ UNCHANGED attendances
     ELSE /\ attendances' = registerAttendance(attendances, userId, gameId, action)
          /\ last' = Response("registerAttendance", userId, gameId, action, 0, 200,
                              getRoster(attendances', gameId))
  /\ UNCHANGED <<games, guest_players, guestSeq, txVars>>

\* POST /api/game/:id/attendance
RegisterAttendance(userId, gameId, action) ==
  /\ IF gameId \notin 1..Len(games)
     THEN /\ last' = Response("registerAttendance", userId, gameId, action, 0, 404, ErrorBody("Game not found"))
          /\ UNCHANGED attendances
     ELSE IF games[gameId].state # "OPEN"
     THEN /\ last' = Response("registerAttendance", userId, gameId, action, 0, 403,
                              ErrorBody("Game is not open for attendance changes"))
          /\ UNCHANGED attendances
     ELSE IF ~userExists(userId)
     THEN /\ last' = Response("registerAttendance", userId, gameId, action, 0, 500,
                              ErrorBody("Internal server error"))
          /\ UNCHANGED attendances
     ELSE /\ attendances' = registerAttendance(attendances, userId, gameId, action)
          /\ last' = Response("registerAttendance", userId, gameId, action, 0, 200,
                              getRoster(attendances', gameId))
  /\ UNCHANGED <<games, guest_players, guestSeq, txVars>>

\* POST /api/games/:id/guests
CreateGuest(userId, gameId) ==
  /\ guestSeq < MaxGuests
  /\ IF gameId \notin 1..Len(games)
     THEN /\ last' = Response("createGuest", userId, gameId, "-", 0, 404, ErrorBody("Game not found"))
          /\ UNCHANGED <<guest_players, guestSeq>>
     ELSE IF games[gameId].state # "OPEN"
     THEN /\ last' = Response("createGuest", userId, gameId, "-", 0, 403,
                              ErrorBody("Game is not open for guest registration"))
          /\ UNCHANGED <<guest_players, guestSeq>>
     ELSE IF ~inviterEligible(attendances, gameId, userId)
     THEN /\ last' = Response("createGuest", userId, gameId, "-", 0, 403,
                              ErrorBody("Only registered players can invite guests"))
          /\ UNCHANGED <<guest_players, guestSeq>>
     ELSE /\ \E selfRating \in CreateRatings :
               guest_players' = createGuest(attendances, guest_players, guestSeq, userId, gameId, selfRating)
          /\ guestSeq' = guestSeq + 1
          /\ last' = Response("createGuest", userId, gameId, "-", guestSeq', 201,
                              getRosterWithGuests(attendances, guest_players', gameId))
  /\ UNCHANGED <<games, attendances, txVars>>

\* DELETE /api/games/:id/guests/:guestId
DeleteGuest(userId, gameId, guestId) ==
  LET guests == getGuestsByInviter(guest_players, gameId, userId)
      isInviter == \E i \in 1..Len(guests) : guests[i].id = guestId
      outcome == deleteGuest(games, guest_players, guestId)
  IN /\ IF ~isInviter
        THEN /\ last' = Response("deleteGuest", userId, gameId, "-", guestId, 403,
                                 ErrorBody("You can only delete your own guests"))
             /\ UNCHANGED guest_players
        ELSE IF outcome.error = "Guest not found"
        THEN /\ last' = Response("deleteGuest", userId, gameId, "-", guestId, 404, ErrorBody(outcome.error))
             /\ UNCHANGED guest_players
        ELSE IF outcome.error # ""
        THEN /\ last' = Response("deleteGuest", userId, gameId, "-", guestId, 409, ErrorBody(outcome.error))
             /\ UNCHANGED guest_players
        ELSE /\ guest_players' = outcome.rows
             /\ last' = Response("deleteGuest", userId, gameId, "-", guestId, 200,
                                 getRosterWithGuests(attendances, guest_players', outcome.game_id))
     /\ UNCHANGED <<games, attendances, guestSeq, txVars>>

\* PUT /api/admin/guests/:guestId
UpdateGuest(userId, guestId, selfRating) ==
  /\ IF ~isUserAdmin(userId)
     THEN /\ last' = Response("updateGuest", userId, 0, "-", guestId, 403, ErrorBody("Admin access required"))
          /\ UNCHANGED guest_players
     ELSE IF ~\E r \in guest_players : r.id = guestId
     THEN /\ last' = Response("updateGuest", userId, 0, "-", guestId, 404, ErrorBody("Guest not found"))
          /\ UNCHANGED guest_players
     ELSE /\ guest_players' = updateGuest(attendances, guest_players, guestId, selfRating)
          /\ last' = Response("updateGuest", userId, 0, "-", guestId, 200,
                              CHOOSE r \in guest_players' : r.id = guestId)
  /\ UNCHANGED <<games, attendances, guestSeq, txVars>>

\* the team-publish flow outside the engine: UPDATE games SET state = 'CLOSED'
CloseGame(gameId) ==
  /\ gameId \in 1..Len(games)
  /\ games[gameId].state = "OPEN"
  /\ games' = [games EXCEPT ![gameId].state = "CLOSED"]
  /\ last' = Response("closeGame", 0, gameId, "-", 0, 0, ErrorBody("-"))
  /\ UNCHANGED <<attendances, guest_players, guestSeq, txVars>>

\* ids a request can name: every game of the table and one id that is in no row
RequestGameIds == 1..(Len(games) + 1)

\* the attendance and guest engine on the games of the initial state
Next ==
  \/ \E u \in Players, g \in RequestGameIds, a \in validActions : RegisterAttendance(u, g, a)
  \/ \E u \in Players, g \in RequestGameIds : CreateGuest(u, g)
  \/ \E u \in Callers, g \in 1..Len(games), i \in 1..MaxGuests : DeleteGuest(u, g, i)
  \/ \E g \in GameIds : CloseGame(g)

Spec == Init /\ [][Next]_vars

\* the game lifecycle: games are created, closed and archived while players
\* join, leave and bring guests
NextGames ==
  \/ \E u \in Callers : CreateGame(u)
  \/ \E g \in GameIds : CloseGame(g)
  \/ \E u \in lifecyclePlayers, g \in RequestGameIds, a \in lifecycleActions : RegisterAttendance(u, g, a)
  \/ \E u \in Players, g \in RequestGameIds : guestSeq < MaxLifecycleGuests /\ CreateGuest(u, g)
  \/ \E u \in Callers, g \in 1..Len(games), i \in 1..MaxLifecycleGuests : DeleteGuest(u, g, i)

SpecGames == Init /\ [][NextGames]_vars

\* guests of one game: players join and leave, bring guests and remove them,
\* and the admin edits the guests
NextGuests ==
  \/ \E u \in Players, g \in 1..Len(games), a \in lifecycleActions : RegisterAttendance(u, g, a)
  \/ \E u \in Players, g \in 1..Len(games) : CreateGuest(u, g)
  \/ \E u \in Players, g \in 1..Len(games), i \in 1..MaxGuests : DeleteGuest(u, g, i)
  \/ \E u \in Callers, i \in 1..MaxGuests, selfRating \in UpdateRatings : UpdateGuest(u, i, selfRating)

SpecGuests == Init /\ [][NextGuests]_vars

\* ------------------------------------- createGame as interleaved transactions
\* Each pool connection runs BEGIN / UPDATE / INSERT / COMMIT of createGame.
\* A statement sees what was committed when it started; an UPDATE waits for
\* the row locks of uncommitted updates and then re-checks its rows.
InFlight == {c \in Conns : txPc[c] # "idle"}

TxBegin(c) ==
  /\ txPc[c] = "idle"
  /\ Len(games) + Cardinality(InFlight) < MaxGames
  /\ CURRENT_TIMESTAMP <= MaxTimestamp
  /\ txPc' = [txPc EXCEPT ![c] = "begun"]
  /\ txStart' = [txStart EXCEPT ![c] = CURRENT_TIMESTAMP]
  /\ UNCHANGED <<dbVars, last, txTargets, txUpd, rq>>

TxArchiveStart(c) ==
  /\ txPc[c] = "begun"
  /\ txTargets' = [txTargets EXCEPT ![c] = OpenGames(games)]
  /\ txPc' = [txPc EXCEPT ![c] = "archiving"]
  /\ UNCHANGED <<dbVars, last, txUpd, txStart, rq>>

TxArchiveFinish(c) ==
  /\ txPc[c] = "archiving"
  /\ \A d \in Conns \ {c} : txUpd[d] \cap txTargets[c] = {}
  /\ txUpd' = [txUpd EXCEPT ![c] = {g \in txTargets[c] : games[g].state = "OPEN"}]
  /\ txPc' = [txPc EXCEPT ![c] = "archived"]
  /\ UNCHANGED <<dbVars, last, txTargets, txStart, rq>>

TxInsert(c) ==
  /\ txPc[c] = "archived"
  /\ txPc' = [txPc EXCEPT ![c] = "inserted"]
  /\ UNCHANGED <<dbVars, last, txTargets, txUpd, txStart, rq>>

\* the INSERT of a createGame call whose adminId is in no row of users violates
\* the foreign key of created_by: the catch block rolls back and rethrows
TxInsertFails(c, adminId) ==
  /\ txPc[c] = "archived"
  /\ ~userExists(adminId)
  /\ games' = rollbackGames(games, txUpd[c])
  /\ last' = Response("createGame", adminId, 0, "-", 0, 500, ErrorBody("Internal server error"))
  /\ txPc' = [txPc EXCEPT ![c] = "idle"]
  /\ txTargets' = [txTargets EXCEPT ![c] = {}]
  /\ txUpd' = [txUpd EXCEPT ![c] = {}]
  /\ txStart' = [txStart EXCEPT ![c] = 0]
  /\ UNCHANGED <<attendances, guest_players, guestSeq, rq>>

TxCommit(c) ==
  /\ txPc[c] = "inserted"
  /\ games' = insertGame(archiveGames(games, txUpd[c]), AdminId, txStart[c])
  /\ last' = Response("createGame", AdminId, Len(games'), "-", 0, 201, games'[Len(games')])
  /\ txPc' = [txPc EXCEPT ![c] = "idle"]
  /\ txTargets' = [txTargets EXCEPT ![c] = {}]
  /\ txUpd' = [txUpd EXCEPT ![c] = {}]
  /\ txStart' = [txStart EXCEPT ![c] = 0]
  /\ UNCHANGED <<attendances, guest_players, guestSeq, rq>>

NextTx ==
  \/ \E c \in Conns : TxBegin(c)
  \/ \E c \in Conns : TxArchiveStart(c)
  \/ \E c \in Conns : TxArchiveFinish(c)
  \/ \E c \in Conns : TxInsert(c)
  \/ \E c \in Conns, u \in NonexistentUsers : TxInsertFails(c, u)
  \/ \E c \in Conns : TxCommit(c)
  \/ \E g \in GameIds : CloseGame(g)
  \/ \E u \in NonexistentUsers, g \in RequestGameIds, a \in validActions : RegisterAttendance(u, g, a)

SpecTx == Init /\ [][NextTx]_vars

\* ------------------- registerAttendance and createGuest as interleaved transactions
\* Each pool connection runs one request at a time: the SELECTs of the game and
\* of the caller's row, the SELECT COUNT, then the write and COMMIT.  A SELECT
\* sees the rows committed when it runs; the upsert waits for an uncommitted
\* insert of the same (game_id, player_id) and then updates that row, so the
\* write and its COMMIT are one step.  A finished request stays in rq until the
\* connection starts the next one; its raced field records that the latest
\* request of another connection committed after this request had read its count.
Free(c) == rq[c].pc \in {"idle", "done"}

\* connection c starts a request, or answers without starting one
Begun(c, request) ==
  [d \in Conns |-> IF d = c THEN request ELSE [rq[d] EXCEPT !.raced = FALSE]]

\* connection c commits
Committed(c, request) ==
  [d \in Conns |-> IF d = c THEN request
                   ELSE IF rq[d].pc = "counted" THEN [rq[d] EXCEPT !.raced = TRUE] ELSE rq[d]]

\* BEGIN, SELECT state FROM games, SELECT status FROM attendances
RqRegisterRead(c, userId, gameId, action) ==
  /\ Free(c)
  /\ IF gameId \notin 1..Len(games)
     THEN /\ last' = Response("registerAttendance", userId, gameId, action, 0, 404, ErrorBody("Game not found"))
          /\ rq' = Begun(c, NoRequest)
     ELSE IF games[gameId].state # "OPEN"
     THEN /\ last' = Response("registerAttendance", userId, gameId, action, 0, 403,
                              ErrorBody("Game is not open for attendance changes"))
          /\ rq' = Begun(c, NoRequest)
     ELSE /\ rq' = Begun(c, [pc |-> "read", op |-> "registerAttendance", user |-> userId,
                                      game |-> gameId, action |-> action,
                                      existing |-> existingStatusOf(attendances, gameId, userId),
                                      count |-> 0, guest |-> 0, raced |-> FALSE])
          /\ UNCHANGED last
  /\ UNCHANGED <<dbVars, txPc, txTargets, txUpd, txStart>>

\* handleConfirmedRequest: SELECT COUNT(*) ... status = 'CONFIRMED'
RqRegisterCount(c) ==
  /\ rq[c].pc = "read"
  /\ rq[c].op = "registerAttendance"
  /\ rq[c].action = "CONFIRMED"
  /\ rq' = [rq EXCEPT ![c].pc = "counted",
                      ![c].count = Cardinality({r \in attendances : r.game_id = rq[c].game
                                                                    /\ r.status = "CONFIRMED"})]
  /\ UNCHANGED <<dbVars, last, txPc, txTargets, txUpd, txStart>>

\* the handler's upsert, COMMIT and the roster of the response
RqRegisterWrite(c) ==
  /\ rq[c].op = "registerAttendance"
  /\ rq[c].pc = IF rq[c].action = "CONFIRMED" THEN "counted" ELSE "read"
  /\ LET status == handledStatus(rq[c].action, rq[c].existing, rq[c].count)
     IN attendances' = IF status = "" THEN attendances
                       ELSE upsertAttendance(attendances, rq[c].game, rq[c].user, status)
  /\ last' = Response("registerAttendance", rq[c].user, rq[c].game, rq[c].action, 0, 200,
                      getRoster(attendances', rq[c].game))
  /\ rq' = Committed(c, [rq[c] EXCEPT !.pc = "done"])
  /\ UNCHANGED <<games, guest_players, guestSeq, txPc, txTargets, txUpd, txStart>>

\* createGuest: BEGIN, SELECT state FROM games, SELECT status FROM attendances
RqGuestRead(c, userId, gameId) ==
  /\ Free(c)
  /\ guestSeq + Cardinality({d \in Conns : rq[d].op = "createGuest" /\ ~Free(d)}) < MaxGuests
  /\ IF gameId \notin 1..Len(games)
     THEN /\ last' = Response("createGuest", userId, gameId, "-", 0, 404, ErrorBody("Game not found"))
          /\ rq' = Begun(c, NoRequest)
     ELSE IF games[gameId].state # "OPEN"
     THEN /\ last' = Response("createGuest", userId, gameId, "-", 0, 403,
                              ErrorBody("Game is not open for guest registration"))
          /\ rq' = Begun(c, NoRequest)
     ELSE IF ~inviterEligible(attendances, gameId, userId)
     THEN /\ last' = Response("createGuest", userId, gameId, "-", 0, 403,
                              ErrorBody("Only registered players can invite guests"))
          /\ rq' = Begun(c, NoRequest)
     ELSE /\ rq' = Begun(c, [pc |-> "read", op |-> "createGuest", user |-> userId,
                                      game |-> gameId, action |-> "-",
                                      existing |-> "-", count |-> 0, guest |-> 0, raced |-> FALSE])
          /\ UNCHANGED last
  /\ UNCHANGED <<dbVars, txPc, txTargets, txUpd, txStart>>

\* createGuest: SELECT ... as total_confirmed
RqGuestCount(c) ==
  /\ rq[c].pc = "read"
  /\ rq[c].op = "createGuest"
  /\ rq' = [rq EXCEPT ![c].pc = "counted",
                      ![c].count = totalConfirmed(attendances, guest_players, rq[c].game)]
  /\ UNCHANGED <<dbVars, last, txPc, txTargets, txUpd, txStart>>

\* createGuest: INSERT, COMMIT and the roster of the response
RqGuestWrite(c) ==
  /\ rq[c].pc = "counted"
  /\ rq[c].op = "createGuest"
  /\ \E selfRating \in CreateRatings :
       guest_players' = insertGuest(guest_players, guestSeq, rq[c].user, rq[c].game, selfRating,
                                    guestStatusAt(rq[c].count))
  /\ guestSeq' = guestSeq + 1
  /\ last' = Response("createGuest", rq[c].user, rq[c].game, "-", guestSeq', 201,
                      getRosterWithGuests(attendances, guest_players', rq[c].game))
  /\ rq' = Committed(c, [rq[c] EXCEPT !.pc = "done", !.guest = guestSeq'])
  /\ UNCHANGED <<games, attendances, txPc, txTargets, txUpd, txStart>>

NextCap ==
  \/ \E c \in Conns, u \in Players, g \in 1..Len(games), a \in capActions : RqRegisterRead(c, u, g, a)
  \/ \E c \in Conns : RqRegisterCount(c)
  \/ \E c \in Conns : RqRegisterWrite(c)
  \/ \E c \in Conns, u \in lifecyclePlayers, g \in 1..Len(games) : RqGuestRead(c, u, g)
  \/ \E c \in Conns : RqGuestCount(c)
  \/ \E c \in Conns : RqGuestWrite(c)

SpecCap == Init /\ [][NextCap]_vars

\* ================================================================ properties
statusOf(att, gameId, userId) == existingStatusOf(att, gameId, userId)

confirmedPlayers(att, gameId) ==
  Cardinality({r \in att : r.game_id = gameId /\ r.status = "CONFIRMED"})

\* CONFIRMED players plus CONFIRMED guests of a game
combinedConfirmed(att, gp, gameId) ==
  confirmedPlayers(att, gameId)
  + Cardinality({r \in gp : r.game_id = gameId /\ r.status = "CONFIRMED"})

RosterPlayerIds(list) == {list[i].player_id : i \in 1..Len(list)}

\* the step is a successful registerAttendance(p, g, a) request
RegisterStep(p, g, a) ==
  /\ last'.op = "registerAttendance"
  /\ last'.http = 200
  /\ last'.user = p
  /\ last'.game = g
  /\ last'.action = a

\* the step is a delete-guest request by caller u for guest i
DeleteStep(u, i) ==
  /\ last'.op = "deleteGuest"
  /\ last'.user = u
  /\ last'.guest = i

\* the step is a create-guest request by caller u for game g
CreateGuestStep(u, g) ==
  /\ last'.op = "createGuest"
  /\ last'.user = u
  /\ last'.game = g

\* the last request was answered with the roster of getRoster
ReturnsRoster == last.op = "registerAttendance" /\ last.http = 200

\* the last request was answered with the roster of getRosterWithGuests
ReturnsRosterWithGuests ==
  \/ last.op = "createGuest" /\ last.http = 201
  \/ last.op = "deleteGuest" /\ last.http = 200

\* each entry of a roster list was created before the next one
OrderedByCreatedAt(list) ==
  \A i \in 1..Len(list) - 1 : list[i].created_at < list[i + 1].created_at

\* how often player p is in a roster list
Occurrences(list, p) == Cardinality({i \in 1..Len(list) : list[i].player_id = p})

\* every id an attendance row can carry
AttendeeIds == Players \cup {r.player_id : r \in attendances}

\* the place of player p in a roster list, 0 when p is not in it
IndexOf(list, p) ==
  IF \E i \in 1..Len(list) : list[i].player_id = p
  THEN CHOOSE i \in 1..Len(list) : list[i].player_id = p
  ELSE 0

\* C1: after each createGame call of a sequential run the new game is the only
\* OPEN game and every game that was OPEN before the call is ARCHIVED.
C1_SingleOpenAfterCreate ==
  [][(last'.op = "createGame" /\ last'.http = 201)
       => /\ Len(games') = Len(games) + 1
          /\ OpenGames(games') = {Len(games')}
          /\ \A g \in OpenGames(games) : games'[g].state = "ARCHIVED"]_vars

C1_Witness ==
  /\ last.op = "createGame"
  /\ last.http = 201
  /\ Len(games) >= 2
  /\ games[Len(games) - 1].state = "ARCHIVED"
  /\ OpenGames(games) = {Len(games)}

\* C2: with interleaved createGame transactions no committed state of the
\* games table holds two OPEN games.
C2_AtMostOneOpenCommitted == Cardinality(OpenGames(games)) <= 1

\* C3: on an OPEN game the players that are CONFIRMED or LATE_CONFIRMED plus
\* the CONFIRMED guests never exceed 24.
C3_CapacityInvariant ==
  \A g \in 1..Len(games) :
    games[g].state = "OPEN" => totalConfirmed(attendances, guest_players, g) <= MAX_TOTAL_PLAYERS

\* C4: with exactly 24 confirmed participants (players and guests together) a
\* first-time CONFIRMED request is stored WAITING and the combined count stays 24.
C4_CapOnFirstEntryCombined ==
  [][\A p \in Players, g \in 1..Len(games) :
       (/\ RegisterStep(p, g, "CONFIRMED")
        /\ statusOf(attendances, g, p) = "NONE"
        /\ combinedConfirmed(attendances, guest_players, g) = MAX_TOTAL_PLAYERS)
       => /\ statusOf(attendances', g, p) = "WAITING"
          /\ combinedConfirmed(attendances', guest_players', g) = MAX_TOTAL_PLAYERS]_vars

C6_Idempotence ==
  [][(/\ last.op = "registerAttendance"
      /\ last.http = 200
      /\ RegisterStep(last.user, last.game, last.action))
       => /\ last'.body = last.body
          /\ attendances' = attendances]_vars

\* C7: a successful OUT request of a player that was not OUT carries
\* requiresGuestRemovalDialog = true exactly when the player has a guest slot
\* for the game.
C7_GuestRemovalFlag ==
  [][\A p \in Players, g \in 1..Len(games) :
       (RegisterStep(p, g, "OUT") /\ statusOf(attendances, g, p) # "OUT")
       => LET body == last'.body
              flagged == /\ "requiresGuestRemovalDialog" \in DOMAIN body
                         /\ body["requiresGuestRemovalDialog"] = TRUE
          IN flagged <=> \E r \in guest_players : r.game_id = g /\ r.inviter_id = p]_vars

C9_GuestOwnership ==
  [][\A u \in Callers \ Admins, i \in 1..guestSeq :
       (DeleteStep(u, i) /\ \E r \in guest_players : r.id = i /\ r.inviter_id # u)
       => /\ last'.http = 403
          /\ guest_players' = guest_players]_vars

C9_Witness ==
  /\ last.op = "deleteGuest"
  /\ last.http = 403
  /\ last.user \in Callers \ Admins
  /\ \E r \in guest_players :
       /\ r.id = last.guest
       /\ r.inviter_id # last.user
       /\ r.game_id = last.game
       /\ games[r.game_id].state = "ARCHIVED"

\* C10: deleting an existing guest as its inviter fails with 409 and keeps the
\* row when the guest's game is CLOSED, and removes the row (200) when the
\* game is OPEN or ARCHIVED.
C10_ClosedGameLock ==
  [][\A u \in Callers, i \in 1..guestSeq :
       (DeleteStep(u, i) /\ \E r \in guest_players :
                              r.id = i /\ r.inviter_id = u /\ r.game_id = last'.game)
       => LET guest == CHOOSE r \in guest_players : r.id = i
          IN IF games[guest.game_id].state = "CLOSED"
             THEN last'.http = 409 /\ guest_players' = guest_players
             ELSE last'.http = 200 /\ guest_players' = guest_players \ {guest}]_vars

C10_Witness ==
  /\ last.op = "deleteGuest"
  /\ last.http = 409
  /\ \E r \in guest_players : r.id = last.guest /\ games[r.game_id].state = "CLOSED"

\* C11: a createGuest call that succeeds adds one guest row, stored WAITING when
\* the players that are CONFIRMED or LATE_CONFIRMED plus the CONFIRMED guests
\* were 24 or more before the insert and CONFIRMED otherwise; the call never
\* takes that combined count from 24 or less to more than 24.
C11_GuestPlacement ==
  [][\A u \in Players, g \in 1..Len(games) :
       (CreateGuestStep(u, g) /\ last'.http = 201)
       => LET before == totalConfirmed(attendances, guest_players, g)
              after == totalConfirmed(attendances', guest_players', g)
              added == guest_players' \ guest_players
          IN /\ guest_players \subseteq guest_players'
             /\ Cardinality(added) = 1
             /\ \A r \in added :
                  /\ r.game_id = g
                  /\ r.inviter_id = u
                  /\ r.status = IF before >= MAX_TOTAL_PLAYERS THEN "WAITING" ELSE "CONFIRMED"
             /\ before <= MAX_TOTAL_PLAYERS => after <= MAX_TOTAL_PLAYERS
             /\ before >= MAX_TOTAL_PLAYERS => after = before]_vars

C11_Witness ==
  /\ last.op = "createGuest"
  /\ last.http = 201
  /\ totalConfirmed(attendances, guest_players, last.game) = MAX_TOTAL_PLAYERS
  /\ \E r \in guest_players : r.id = last.guest /\ r.status = "WAITING"

\* C12: on an OPEN game createGuest is answered 403 and adds no guest row when
\* the inviter has no attendance record for the game or has status OUT, and is
\* answered 201 with a guest row of the inviter added when the inviter's status
\* is CONFIRMED, WAITING or LATE_CONFIRMED.
C12_InviterEligibility ==
  [][\A u \in Players, g \in 1..Len(games) :
       (CreateGuestStep(u, g) /\ games[g].state = "OPEN")
       => IF statusOf(attendances, g, u) \in {"NONE", "OUT"}
          THEN /\ last'.http = 403
               /\ guest_players' = guest_players
          ELSE /\ last'.http = 201
               /\ \E r \in guest_players' \ guest_players : r.game_id = g /\ r.inviter_id = u]_vars

C12_Witness ==
  /\ last.op = "createGuest"
  /\ last.http = 403
  /\ last.game \in 1..Len(games)
  /\ games[last.game].state = "OPEN"
  /\ statusOf(attendances, last.game, last.user) = "OUT"
  /\ guest_players # {}

\* C13: registerAttendance and createGuest are answered 404 for a game id that
\* is in no row of games and 403 for a game that is CLOSED or ARCHIVED, and in
\* both cases leave every attendance row and every guest row as it was.
C13_OpenGameGate ==
  [][\A u \in Players, g \in RequestGameIds :
       (/\ last'.op \in {"registerAttendance", "createGuest"}
        /\ last'.user = u
        /\ last'.game = g)
       => /\ g \notin 1..Len(games)
               => /\ last'.http = 404
                  /\ attendances' = attendances
                  /\ guest_players' = guest_players
          /\ (g \in 1..Len(games) /\ games[g].state \in {"CLOSED", "ARCHIVED"})
               => /\ last'.http = 403
                  /\ attendances' = attendances
                  /\ guest_players' = guest_players]_vars

C13_Witness ==
  /\ last.op = "registerAttendance"
  /\ last.http = 403
  /\ last.game \in 1..Len(games)
  /\ games[last.game].state = "ARCHIVED"
  /\ statusOf(attendances, last.game, last.user) = "CONFIRMED"
  /\ last.action = "OUT"

\* C14: a delete-guest request that names a guest id in no row of guest_players
\* is answered 404, not the 403 of a caller that does not own an existing guest.
C14_MissingGuestNotFound ==
  [][\A u \in Callers, i \in 1..MaxGuests :
       (DeleteStep(u, i) /\ ~\E r \in guest_players : r.id = i)
       => /\ last'.http = 404
          /\ guest_players' = guest_players]_vars

\* C15: a delete-guest request of an admin that is not the guest's inviter is
\* not rejected for lack of ownership (403).
C15_AdminOverride ==
  [][\A u \in Admins, i \in 1..guestSeq :
       (DeleteStep(u, i) /\ \E r \in guest_players :
                              r.id = i /\ r.inviter_id # u /\ r.game_id = last'.game)
       => last'.http # 403]_vars

\* C16 as stated: each of the four lists of a returned roster is in ascending
\* order of creation, whoever invited the guests.
C16_Original ==
  /\ ReturnsRoster \/ ReturnsRosterWithGuests
       => OrderedByCreatedAt(last.body.confirmed) /\ OrderedByCreatedAt(last.body.waiting)
  /\ ReturnsRosterWithGuests
       => /\ OrderedByCreatedAt(last.body.guests.confirmed)
          /\ OrderedByCreatedAt(last.body.guests.waiting)

\* C16 amended: the two player lists of every returned roster are in ascending
\* order of creation; in the two guest lists a guest created earlier precedes
\* a guest created later when both have the same inviter, and otherwise the
\* guest of the smaller inviter id comes first.
C16_RosterOrdering ==
  /\ ReturnsRoster \/ ReturnsRosterWithGuests
       => OrderedByCreatedAt(last.body.confirmed) /\ OrderedByCreatedAt(last.body.waiting)
  /\ ReturnsRosterWithGuests
       => \A list \in {last.body.guests.confirmed, last.body.guests.waiting} :
            \A i, j \in 1..Len(list) :
              i < j => IF list[i].inviter_id = list[j].inviter_id
                       THEN list[i].created_at < list[j].created_at
                       ELSE list[i].inviter_id < list[j].inviter_id

C16_Witness ==
  /\ ReturnsRosterWithGuests
  /\ Len(last.body.confirmed) >= 2
  /\ Len(last.body.waiting) >= 2
  /\ Len(last.body.guests.waiting) >= 2
  /\ last.body.guests.waiting[1].inviter_id = last.body.guests.waiting[2].inviter_id

\* C17: each guest list returned by getRosterWithGuests is ordered by inviter
\* id and, among the guests of one inviter, by creation time ascending.
C17_GuestOrdering ==
  ReturnsRosterWithGuests
  => \A list \in {last.body.guests.confirmed, last.body.guests.waiting} :
       \A i \in 1..Len(list) - 1 :
         \/ list[i].inviter_id < list[i + 1].inviter_id
         \/ /\ list[i].inviter_id = list[i + 1].inviter_id
            /\ list[i].created_at <= list[i + 1].created_at

C17_Witness ==
  /\ ReturnsRosterWithGuests
  /\ Len(last.body.guests.waiting) >= 2
  /\ last.body.guests.waiting[1].inviter_id < last.body.guests.waiting[2].inviter_id
  /\ last.body.guests.waiting[1].created_at > last.body.guests.waiting[2].created_at

C20_GetOpenGame ==
  /\ getOpenGame(games) = 0 <=> OpenGames(games) = {}
  /\ getOpenGame(games) # 0
       => /\ getOpenGame(games) \in OpenGames(games)
          /\ \A h \in OpenGames(games) : games[h].created_at <= games[getOpenGame(games)].created_at
  /\ (last.op = "createGame" /\ last.http = 201) => getOpenGame(games) = last.game

C21_ConsistentRosterView ==
  ReturnsRoster
  => /\ "guests" \in DOMAIN last.body
     /\ last.body = getRosterWithGuests(attendances, guest_players, last.game)

\* C26: createGame turns every OPEN game ARCHIVED and leaves the state of
\* every CLOSED or ARCHIVED game as it was; no step deletes a game and no step
\* makes a game OPEN that was CLOSED or ARCHIVED.
C26_GameStateFrame ==
  [][/\ Len(games') >= Len(games)
     /\ \A g \in 1..Len(games) :
          /\ games'[g].state = "OPEN" => games[g].state = "OPEN"
          /\ (last'.op = "createGame" /\ last'.http = 201)
               => games'[g].state = IF games[g].state = "OPEN" THEN "ARCHIVED" ELSE games[g].state]_vars

C26_Witness ==
  /\ last.op = "createGame"
  /\ last.http = 201
  /\ \E g \in 1..Len(games) : games[g].state = "CLOSED"

\* C27: the inviter of every guest row has an attendance row for the guest's
\* game (its status may be OUT).
C27_InviterHasRecord ==
  \A r \in guest_players : statusOf(attendances, r.game_id, r.inviter_id) # "NONE"

C27_Witness ==
  \E r \in guest_players : statusOf(attendances, r.game_id, r.inviter_id) = "OUT"

\* C29: no step changes the created_at of an attendance row, and in the roster
\* a registerAttendance request returns a player that had a row before the
\* request stands, by that row's created_at, before every entry of the same
\* list that was created later and after every entry that was created earlier.
C29_PositionFixedByFirstRegistration ==
  [][/\ attendances' # attendances
          => \A r \in attendances : \E q \in attendances' :
               /\ q.game_id = r.game_id
               /\ q.player_id = r.player_id
               /\ q.created_at = r.created_at
     /\ (last'.op = "registerAttendance" /\ last'.http = 200)
          => \A r \in {x \in attendances : x.game_id = last'.game /\ x.player_id = last'.user} :
               \A list \in {last'.body.confirmed, last'.body.waiting} :
                 LET place == IndexOf(list, r.player_id)
                 IN place # 0
                    => \A i \in 1..Len(list) :
                         /\ r.created_at < list[i].created_at => place < i
                         /\ list[i].created_at < r.created_at => i < place]_vars

C29_Witness ==
  /\ ReturnsRoster
  /\ last.action = "CONFIRMED"
  /\ confirmedPlayers(attendances, last.game) > MAX_CONFIRMED_PLAYERS
  /\ \E q \in Players :
       /\ IndexOf(last.body.confirmed, q) # 0
       /\ IndexOf(last.body.confirmed, last.user) # 0
       /\ IndexOf(last.body.confirmed, last.user) < IndexOf(last.body.confirmed, q)

\* C30: createGame leaves every attendance row and every guest row as it was,
\* so the roster of every earlier game is the same before and after the call.
C30_CreateGameKeepsRosters ==
  [][(last'.op = "createGame" /\ last'.http = 201)
       => /\ attendances' = attendances
          /\ guest_players' = guest_players
          /\ \A g \in 1..Len(games) :
               getRosterWithGuests(attendances', guest_players', g)
                 = getRosterWithGuests(attendances, guest_players, g)]_vars

C30_Witness ==
  /\ last.op = "createGame"
  /\ last.http = 201
  /\ \E g \in 1..Len(games) :
       /\ games[g].state = "ARCHIVED"
       /\ \E r \in guest_players : r.game_id = g
       /\ \E r \in attendances : r.game_id = g /\ r.player_id \in Players

\* C28: no step changes the status of a guest row: a guest keeps the status of
\* its creation while other guests are deleted, its inviter changes status and
\* the admin edits it, even when confirmed places are free.
C28_GuestStatusFixed ==
  [][\A r \in guest_players, q \in guest_players' : q.id = r.id => q.status = r.status]_vars

C28_Witness ==
  /\ last.op = "updateGuest"
  /\ last.http = 200
  /\ last.body.status = "WAITING"
  /\ last.body.rating \in UpdateRatings
  /\ totalConfirmed(attendances, guest_players, last.body.game_id) < MAX_TOTAL_PLAYERS
  /\ statusOf(attendances, last.body.game_id, last.body.inviter_id) = "OUT"


\* two finished requests of different connections for one game that both read
\* a count one below the cap before either committed
BothReadBelowCap(c, d, op) ==
  /\ c # d
  /\ rq[c].pc = "done" /\ rq[d].pc = "done"
  /\ rq[c].op = op /\ rq[d].op = op
  /\ rq[c].game = rq[d].game
  /\ rq[c].count = MAX_CONFIRMED_PLAYERS - 1
  /\ rq[d].count = MAX_CONFIRMED_PLAYERS - 1
  /\ (rq[c].raced \/ rq[d].raced)

FirstTimeConfirmed(c) == rq[c].action = "CONFIRMED" /\ rq[c].existing = "NONE"

\* C24: when two first-time CONFIRMED registrations by different players, or two
\* createGuest calls, for the same OPEN game both read the confirmed count as 23
\* before either commits, both commit with status CONFIRMED and the game ends
\* with 25 confirmed, one more than the cap.
C24_CapOverrun ==
  \A c, d \in Conns :
    /\ (/\ BothReadBelowCap(c, d, "registerAttendance")
        /\ FirstTimeConfirmed(c) /\ FirstTimeConfirmed(d)
        /\ rq[c].user # rq[d].user)
         => /\ statusOf(attendances, rq[c].game, rq[c].user) = "CONFIRMED"
            /\ statusOf(attendances, rq[d].game, rq[d].user) = "CONFIRMED"
            /\ confirmedPlayers(attendances, rq[c].game) = MAX_CONFIRMED_PLAYERS + 1
    /\ BothReadBelowCap(c, d, "createGuest")
         => /\ \A i \in {rq[c].guest, rq[d].guest} :
                 \E x \in guest_players : x.id = i /\ x.status = "CONFIRMED"
            /\ totalConfirmed(attendances, guest_players, rq[c].game) = MAX_TOTAL_PLAYERS + 1

\* two registrations that both read 23 have committed, and two guest creations
\* that both read 23 have committed
C24_Witness ==
  /\ BothReadBelowCap(1, 2, "registerAttendance")
  /\ FirstTimeConfirmed(1) /\ FirstTimeConfirmed(2)
  /\ rq[1].user # rq[2].user
  /\ confirmedPlayers(attendances, rq[1].game) = MAX_CONFIRMED_PLAYERS + 1

C24_WitnessGuests ==
  /\ BothReadBelowCap(1, 2, "createGuest")
  /\ totalConfirmed(attendances, guest_players, rq[1].game) = MAX_TOTAL_PLAYERS + 1

\* C25: whatever registerAttendance calls have run or are running, a game holds
\* at most one attendance row per player.
C25_OneRowPerPlayer ==
  Cardinality({<<r.game_id, r.player_id>> : r \in attendances}) = Cardinality(attendances)

\* two calls of one player that both found no row have both committed
C25_Witness ==
  /\ rq[1].pc = "done" /\ rq[2].pc = "done"
  /\ rq[1].op = "registerAttendance" /\ rq[2].op = "registerAttendance"
  /\ rq[1].user = rq[2].user /\ rq[1].game = rq[2].game
  /\ rq[1].existing = "NONE" /\ rq[2].existing = "NONE"
  /\ rq[1].action # rq[2].action
  /\ \E r \in attendances : r.game_id = rq[1].game /\ r.player_id = rq[1].user

====
